---- MODULE Spec2Model ----
(***************************************************************************)
(* FirebaseService (wwwroot/js/firebase-service.js): the booking site's    *)
(* data-access layer.  The document store (collections bookings,           *)
(* availability, activities, admins) and the identity provider's session   *)
(* are the state; every method is an async function that suspends at each  *)
(* awaited request, so a method is one "call" step followed by one step    *)
(* per request, and the steps of concurrent calls interleave.              *)
(***************************************************************************)
EXTENDS Integers, Sequences, FiniteSets, TLC

\* ------------------------------------------------------------ bounds
\* The number of calls a behaviour issues.
MaxCalls == 2
\* The number of requests that fail in a behaviour for a reason outside the
\* store's content (network, permission).
MaxFailures == 1

\* Callers that may have a call in flight at the same time.  Callers are
\* interchangeable: caller 2 is the one whose call overlaps a call of caller 1.
Procs == {1, 2}

\* Inputs the callers draw from.
Dates == {"d1", "d2"}
\* "09:00" is a key of the default slot map, "20:00" is not.
Times == {"09:00", "20:00"}
Deltas == {1, -2}
\* Document ids add() can generate (the store orders ids; numbers stand for them).
BookingIds == {1, 2, 3}
Updates == {[status |-> "confirmed"], [date |-> "d2", kids |-> 4]}
Emails == {"admin@hv", "guest@hv"}

\* ------------------------------------------------- the remote content
\* The admins collection (the allow-list) and the activities collection are
\* only ever read by this layer.
Admins == {"admin@hv"}
Activities == [slide |-> [name |-> "Slide"], pool |-> [name |-> "Pool"]]

\* The message of a failed store or identity-provider request.
ErrUnavailable == "unavailable"
ErrNotFound == "not-found"
ErrWrongPassword == "auth/wrong-password"
NoUser == "null"
NoError == "none"

VARIABLES
    bookings,       \* collection 'bookings': document id -> fields
    availability,   \* collection 'availability': date -> [date, slots]
    currentUser,    \* this.auth.currentUser: an email or NoUser
    now,            \* the value new Date() expected last
    elapsed,        \* whether time has passed since (a request was under way)
    issued,         \* the document ids add() has generated, in the order of
                    \* the createBooking calls
    procs,          \* per caller: its call, where it stands, the requests it
                    \* has had answered, what the store held when it began
    expected,       \* per <<date, time>>: the booked count at the start plus
                    \* the sum of change over the updateAvailability calls
                    \* that returned success
    calls,          \* number of calls issued
    failures        \* number of requests that failed for an outside reason

vars == <<bookings, availability, currentUser, now, elapsed, issued, procs,
          expected, calls, failures>>
store == <<bookings, availability, currentUser>>

\* ------------------------------------------------------------ helpers
\* { ...a, ...b }: object spread, later properties win.
Spread(a, b) ==
    [f \in DOMAIN a \cup DOMAIN b |-> IF f \in DOMAIN b THEN b[f] ELSE a[f]]

\* hour.toString().padStart(2, '0')
PadStart2(hour) == IF hour < 10 THEN "0" \o ToString(hour) ELSE ToString(hour)

\* The loop stopping one hour early (hour < 18).
generateDefaultSlotsTo17 ==
    LET key(hour) == PadStart2(hour) \o ":00"
    IN  [t \in {key(hour) : hour \in 9..17} |-> [booked |-> 0, total |-> 100]]

generateDefaultSlots ==
    LET key(hour) == PadStart2(hour) \o ":00"
    IN  [t \in {key(hour) : hour \in 9..18} |-> [booked |-> 0, total |-> 100]]

\* The field written with change instead of incremented by it.
IncrementBookedOverwrite(slots, time, change) ==
    LET old == IF time \in DOMAIN slots THEN slots[time] ELSE <<>>
    IN  Spread(slots, (time :> Spread(old, [booked |-> change])))

\* update({ 'slots.<time>.booked': FieldValue.increment(change) }): the store adds
\* change to the field in one step, creating the field (and the slot map entry)
\* when it is missing; the sibling field total is left as it is.
IncrementBooked(slots, time, change) ==
    LET old == IF time \in DOMAIN slots THEN slots[time] ELSE <<>>
        cur == IF "booked" \in DOMAIN old THEN old.booked ELSE 0
    IN  Spread(slots, (time :> Spread(old, [booked |-> cur + change])))

\* The elements of a set as a list, a ahead of b when <<a, b>> \in before.
RECURSIVE SortedBy(_, _)
SortedBy(ids, before) ==
    IF ids = {} THEN <<>>
    ELSE LET first == CHOOSE a \in ids : \A b \in ids \ {a} : <<a, b>> \in before
         IN  <<first>> \o SortedBy(ids \ {first}, before)

\* snapshot.forEach(doc => bookings.push({ id: doc.id, ...doc.data() }))
SnapshotToList(coll, order) ==
    [i \in 1..Len(order) |-> Spread([id |-> order[i]], coll[order[i]])]

\* The query ordered by document id instead of createdAt.
OrderByIdDesc(coll) ==
    SortedBy(DOMAIN coll, {ab \in (DOMAIN coll) \X (DOMAIN coll) : ab[1] > ab[2]})

\* collection('bookings').orderBy('createdAt', 'desc').get(): equal createdAt
\* values are ordered by document id, in the direction of the ordering.
OrderByCreatedAtDesc(coll) ==
    SortedBy(DOMAIN coll,
             {ab \in (DOMAIN coll) \X (DOMAIN coll) :
                \/ coll[ab[1]].createdAt > coll[ab[2]].createdAt
                \/ coll[ab[1]].createdAt = coll[ab[2]].createdAt /\ ab[1] > ab[2]})

\* collection('bookings').where('date', '==', date).get(): in document id order.
WhereDateEquals(coll, date) ==
    LET ids == {id \in DOMAIN coll : coll[id].date = date}
    IN  SortedBy(ids, {ab \in ids \X ids : ab[1] < ab[2]})

\* set(fields) in place of update(fields): the document is replaced.
UpdateFieldsReplace(doc, fields) == fields

\* doc(id).update(fields): the fields are merged into the document.
UpdateFields(doc, fields) == Spread(doc, fields)

\* A delete that removes nothing.
DeleteDocNothing(coll, id) == coll

\* doc(id).delete()
DeleteDoc(coll, id) == [i \in DOMAIN coll \ {id} |-> coll[i]]

\* doc(id).set(doc): the document is created or replaced.
SetDoc(coll, id, doc) == Spread(coll, (id :> doc))

\* The spread written last, so that the caller's fields win.
NewBookingCallerWins(bookingData, date) ==
    Spread([status |-> "pending", createdAt |-> date, updatedAt |-> date], bookingData)

\* The document createBooking adds, lines 13-18.
NewBooking(bookingData, date) ==
    Spread(bookingData, [status |-> "pending", createdAt |-> date, updatedAt |-> date])

\* The adults left out of the party.
PartySizeKidsOnly(bookingData) == bookingData.kids

\* bookingData.kids + bookingData.adults, line 22.
PartySize(bookingData) == bookingData.kids + bookingData.adults

Success(payload) == Spread([success |-> TRUE], payload)
Failure(message) == [success |-> FALSE, error |-> message]

\* ------------------------------------------------------- bookkeeping
\* A caller before its first call.
Idle == [op |-> "none", pc |-> "done", args |-> <<>>, loc |-> <<>>,
         ret |-> <<>>, threw |-> FALSE, error |-> NoError, requests |-> <<>>,
         alone |-> FALSE, pre |-> <<>>, prev |-> <<>>]

\* What the store and the session hold.
Snapshot ==
    [bookings |-> bookings, availability |-> availability, currentUser |-> currentUser]

InFlight(p) == procs[p].pc # "done"
Quiescent == \A p \in Procs : ~InFlight(p)

\* Caller p invokes a method: the synchronous part up to the first await ran, the
\* first request is out.  The record keeps, for as long as no other caller
\* invokes anything (alone), what the store held at the call (pre) and the call p
\* made just before this one (prev); what a call returned is kept until another
\* caller invokes something.
InvokeReturning(p, op, pc, args, loc, ret) ==
    /\ ~InFlight(p)
    /\ \A q \in Procs : q < p => InFlight(q)
    /\ calls < MaxCalls
    /\ calls' = calls + 1
    /\ procs' = [q \in Procs |->
                    IF q = p
                    THEN [op |-> op, pc |-> pc, args |-> args, loc |-> loc,
                          ret |-> ret, threw |-> FALSE, error |-> NoError,
                          requests |-> <<>>,
                          alone |-> Quiescent,
                          pre |-> IF Quiescent THEN Snapshot ELSE <<>>,
                          prev |-> IF procs[p].alone /\ Quiescent
                                   THEN [procs[p] EXCEPT !.prev = <<>>]
                                   ELSE <<>>]
                    ELSE IF InFlight(q)
                    THEN [procs[q] EXCEPT !.alone = FALSE, !.pre = <<>>,
                                          !.prev = <<>>]
                    ELSE Idle]
    /\ UNCHANGED <<failures, expected>>

Invoke(p, op, pc, args, loc) == InvokeReturning(p, op, pc, args, loc, <<>>)

\* The request p was waiting for, with how it was answered, added to the requests
\* of the call.
Answered(p, ok) == Append(procs[p].requests, [request |-> procs[p].pc, ok |-> ok])

\* The call of p completes: it returns ret, or throws ret when threw; error is the
\* message of the request of the call that failed, NoError when none did.
Return(p, ret, threw, error) ==
    /\ procs' = [procs EXCEPT ![p].pc = "done", ![p].ret = ret,
                              ![p].threw = threw, ![p].error = error,
                              ![p].requests = Answered(p, error = NoError)]
    /\ expected' =
            IF procs[p].op = "updateAvailability" /\ error = NoError
            THEN LET k == <<procs[p].args.date, procs[p].args.time>>
                 IN  [expected EXCEPT ![k] = @ + procs[p].args.change]
            ELSE expected

\* The call of p goes on to its next request.
Goto(p, pc) ==
    /\ procs' = [procs EXCEPT ![p].pc = pc, ![p].requests = Answered(p, TRUE)]
    /\ UNCHANGED expected

\* Whether a request may fail for an outside reason.
RequestOutcomes == IF failures < MaxFailures THEN BOOLEAN ELSE {TRUE}

\* The request p waits for at pc is answered, with success (ok) or failure; time
\* has passed meanwhile.
Request(p, pc, ok) ==
    /\ procs[p].pc = pc
    /\ ok \in RequestOutcomes
    /\ failures' = IF ok THEN failures ELSE failures + 1
    /\ elapsed' = TRUE
    /\ UNCHANGED <<now, calls, issued>>

\* new Date(): later than the last value read when time has passed since.
Date == IF elapsed THEN now + 1 ELSE now

\* slots[time].booked of a slot map, 0 when the map has no such field.
Booked(slots, time) ==
    IF time \in DOMAIN slots /\ "booked" \in DOMAIN slots[time]
    THEN slots[time].booked ELSE 0

\* slots[time].booked of the document of date in a collection, 0 when missing.
BookedIn(coll, date, time) ==
    IF date \in DOMAIN coll THEN Booked(coll[date].slots, time) ELSE 0

\* The store outlives the page: the service starts on what earlier sessions left.
\* Either nothing, or the two bookings that
\*   createBooking({date: "d2", time: "09:00", kids: 0, adults: 2, status: "cancelled"})
\*   createBooking({date: "d1", time: "09:00", kids: 2, adults: 1})
\* left, called in this order, the first stored under document id 2 and the second
\* under id 1.
EmptyStore == [bookings |-> <<>>, availability |-> <<>>, issued |-> <<>>, now |-> 0]

EarlierStore ==
    [bookings |->
        (1 :> [date |-> "d1", time |-> "09:00", kids |-> 2, adults |-> 1,
               status |-> "pending", createdAt |-> 2, updatedAt |-> 2]
         @@ 2 :> [date |-> "d2", time |-> "09:00", kids |-> 0, adults |-> 2,
                  status |-> "pending", createdAt |-> 1, updatedAt |-> 1]),
     availability |->
        [d \in Dates |->
            [date |-> d,
             slots |-> IncrementBooked(generateDefaultSlots, "09:00",
                                       IF d = "d1" THEN 3 ELSE 2)]],
     issued |-> <<2, 1>>,
     now |-> 2]

Init ==
    /\ \E s \in {EmptyStore, EarlierStore} :
        /\ bookings = s.bookings
        /\ availability = s.availability
        /\ issued = s.issued
        /\ now = s.now
    /\ currentUser = NoUser
    /\ elapsed = TRUE
    /\ procs = [p \in Procs |-> Idle]
    /\ expected = [k \in Dates \X Times |-> BookedIn(availability, k[1], k[2])]
    /\ calls = 0
    /\ failures = 0

\* ------------------------------------------------------------ bookings
\* createBooking(bookingData), lines 11-18: the document is built when add() is
\* called (new Date() is read then) and add() picks the new document's id.
createBooking(p, bookingData) ==
    \E id \in BookingIds \ {issued[i] : i \in 1..Len(issued)} :
        /\ Invoke(p, "createBooking", "add", bookingData,
                  [id |-> id,
                   doc |-> NewBooking(bookingData, Date)])
        /\ issued' = Append(issued, id)
        /\ now' = Date
        /\ elapsed' = FALSE
        /\ UNCHANGED store

\* The add request, lines 13-22; on success createBooking goes on to
\* updateAvailability(bookingData.date, bookingData.time,
\*                    bookingData.kids + bookingData.adults).
createBooking_add(p) ==
    \E ok \in BOOLEAN :
        /\ Request(p, "add", ok)
        /\ IF ok
           THEN /\ bookings' = SetDoc(bookings, procs[p].loc.id, procs[p].loc.doc)
                /\ procs' = [procs EXCEPT ![p].pc = "get",
                                ![p].requests = Answered(p, TRUE),
                                ![p].loc = Spread(@,
                                    [date |-> procs[p].args.date,
                                     time |-> procs[p].args.time,
                                     change |-> PartySize(procs[p].args)])]
                /\ UNCHANGED expected
           ELSE /\ Return(p, Failure(ErrUnavailable), FALSE, ErrUnavailable)
                /\ UNCHANGED bookings
        /\ UNCHANGED <<availability, currentUser>>

getAllBookings(p) ==
    /\ Invoke(p, "getAllBookings", "all", <<>>, <<>>)
    /\ UNCHANGED <<store, now, elapsed, issued>>

\* Lines 34-43.
getAllBookings_get(p) ==
    \E ok \in BOOLEAN :
        /\ Request(p, "all", ok)
        /\ IF ok
           THEN Return(p, Success([bookings |->
                            SnapshotToList(bookings, OrderByCreatedAtDesc(bookings))]),
                       FALSE, NoError)
           ELSE Return(p, Failure(ErrUnavailable), FALSE, ErrUnavailable)
        /\ UNCHANGED store

getBookingsByDate(p, date) ==
    /\ Invoke(p, "getBookingsByDate", "where", [date |-> date], <<>>)
    /\ UNCHANGED <<store, now, elapsed, issued>>

\* Lines 52-61.
getBookingsByDate_get(p) ==
    \E ok \in BOOLEAN :
        /\ Request(p, "where", ok)
        /\ IF ok
           THEN Return(p, Success([bookings |->
                            SnapshotToList(bookings,
                                WhereDateEquals(bookings, procs[p].args.date))]),
                       FALSE, NoError)
           ELSE Return(p, Failure(ErrUnavailable), FALSE, ErrUnavailable)
        /\ UNCHANGED store

\* updateBooking(bookingId, updates): { ...updates, updatedAt: new Date() } is built
\* when update() is called.
updateBooking(p, bookingId, updates) ==
    /\ Invoke(p, "updateBooking", "update",
              [bookingId |-> bookingId, updates |-> updates],
              [fields |-> Spread(updates, [updatedAt |-> Date])])
    /\ now' = Date
    /\ elapsed' = FALSE
    /\ UNCHANGED <<store, issued>>

\* Lines 70-75: update() merges the fields into the document and fails when there
\* is no such document.
updateBooking_update(p) ==
    \E ok \in BOOLEAN :
        /\ Request(p, "update", ok)
        /\ LET id == procs[p].args.bookingId IN
           IF ~ok
           THEN /\ Return(p, Failure(ErrUnavailable), FALSE, ErrUnavailable)
                /\ UNCHANGED bookings
           ELSE IF id \notin DOMAIN bookings
           THEN /\ Return(p, Failure(ErrNotFound), FALSE, ErrNotFound)
                /\ UNCHANGED bookings
           ELSE /\ bookings' = [bookings EXCEPT
                                   ![id] = UpdateFields(@, procs[p].loc.fields)]
                /\ Return(p, Success(<<>>), FALSE, NoError)
        /\ UNCHANGED <<availability, currentUser>>

deleteBooking(p, bookingId) ==
    /\ Invoke(p, "deleteBooking", "delete", [bookingId |-> bookingId], <<>>)
    /\ UNCHANGED <<store, now, elapsed, issued>>

\* Lines 84-85: delete() succeeds whether or not the document exists.
deleteBooking_delete(p) ==
    \E ok \in BOOLEAN :
        /\ Request(p, "delete", ok)
        /\ IF ok
           THEN /\ bookings' = DeleteDoc(bookings, procs[p].args.bookingId)
                /\ Return(p, Success(<<>>), FALSE, NoError)
           ELSE /\ Return(p, Failure(ErrUnavailable), FALSE, ErrUnavailable)
                /\ UNCHANGED bookings
        /\ UNCHANGED <<availability, currentUser>>

\* ---------------------------------------------------------- activities
getActivities(p) ==
    /\ Invoke(p, "getActivities", "activities", <<>>, <<>>)
    /\ UNCHANGED <<store, now, elapsed, issued>>

\* Lines 95-102.
getActivities_get(p) ==
    \E ok \in BOOLEAN :
        /\ Request(p, "activities", ok)
        /\ IF ok
           THEN Return(p, Success([activities |-> Activities]), FALSE, NoError)
           ELSE Return(p, Failure(ErrUnavailable), FALSE, ErrUnavailable)
        /\ UNCHANGED store

\* -------------------------------------------------------- availability
getAvailability(p, date) ==
    /\ Invoke(p, "getAvailability", "get", [date |-> date], [date |-> date])
    /\ UNCHANGED <<store, now, elapsed, issued>>

\* getAvailability answering a missing document with an empty slot map, nothing
\* stored.
getAvailability_getNoCreate(p) ==
    \E ok \in BOOLEAN :
        /\ Request(p, "get", ok)
        /\ procs[p].op = "getAvailability"
        /\ LET date == procs[p].loc.date IN
           IF ~ok THEN Return(p, Failure(ErrUnavailable), FALSE, ErrUnavailable)
           ELSE IF date \in DOMAIN availability
           THEN Return(p, Success([slots |-> availability[date].slots]), FALSE, NoError)
           ELSE Return(p, Success([slots |-> <<>>]), FALSE, NoError)
        /\ UNCHANGED store

\* doc(date).get(), lines 112-118.
getAvailability_get(p) ==
    \E ok \in BOOLEAN :
        /\ Request(p, "get", ok)
        /\ procs[p].op = "getAvailability"
        /\ LET date == procs[p].loc.date IN
           IF ~ok THEN Return(p, Failure(ErrUnavailable), FALSE, ErrUnavailable)
           ELSE IF date \in DOMAIN availability
           THEN Return(p, Success([slots |-> availability[date].slots]), FALSE, NoError)
           ELSE Goto(p, "set")
        /\ UNCHANGED store

\* doc(date).set({ date, slots }), lines 118-124: set() replaces the document.
getAvailability_set(p) ==
    \E ok \in BOOLEAN :
        /\ Request(p, "set", ok)
        /\ procs[p].op = "getAvailability"
        /\ LET date == procs[p].loc.date
               slots == generateDefaultSlots
           IN
           IF ok
           THEN /\ availability' =
                       SetDoc(availability, date, [date |-> date, slots |-> slots])
                /\ Return(p, Success([slots |-> slots]), FALSE, NoError)
           ELSE /\ Return(p, Failure(ErrUnavailable), FALSE, ErrUnavailable)
                /\ UNCHANGED availability
        /\ UNCHANGED <<bookings, currentUser>>

updateAvailability(p, date, time, change) ==
    /\ Invoke(p, "updateAvailability", "get",
              [date |-> date, time |-> time, change |-> change],
              [date |-> date, time |-> time, change |-> change])
    /\ UNCHANGED <<store, now, elapsed, issued>>

\* updateAvailability returns ret: to its caller, or into createBooking, which
\* awaits it, drops what it returns and returns { success: true, id } (line 24).
updateAvailability_return(p, ret) ==
    IF procs[p].op = "createBooking"
    THEN Return(p, Success([id |-> procs[p].loc.id]), FALSE,
                IF ret.success THEN NoError ELSE ret.error)
    ELSE Return(p, ret, FALSE, IF ret.success THEN NoError ELSE ret.error)

\* availabilityRef.get(), lines 133-136.
updateAvailability_get(p) ==
    \E ok \in BOOLEAN :
        /\ Request(p, "get", ok)
        /\ procs[p].op \in {"updateAvailability", "createBooking"}
        /\ IF ~ok THEN updateAvailability_return(p, Failure(ErrUnavailable))
           ELSE IF procs[p].loc.date \in DOMAIN availability
           THEN Goto(p, "increment")
           ELSE Goto(p, "set")
        /\ UNCHANGED store

\* updateAvailability going on to its increment after a set() that failed.
updateAvailability_setGoesOn(p) ==
    \E ok \in BOOLEAN :
        /\ Request(p, "set", ok)
        /\ procs[p].op \in {"updateAvailability", "createBooking"}
        /\ LET date == procs[p].loc.date IN
           IF ok
           THEN /\ availability' =
                       SetDoc(availability, date,
                              [date |-> date, slots |-> generateDefaultSlots])
                /\ Goto(p, "increment")
           ELSE /\ procs' = [procs EXCEPT ![p].pc = "increment",
                                          ![p].requests = Answered(p, FALSE)]
                /\ UNCHANGED <<availability, expected>>
        /\ UNCHANGED <<bookings, currentUser>>

\* availabilityRef.set({ date, slots }), lines 137-138.
updateAvailability_set(p) ==
    \E ok \in BOOLEAN :
        /\ Request(p, "set", ok)
        /\ procs[p].op \in {"updateAvailability", "createBooking"}
        /\ LET date == procs[p].loc.date IN
           IF ok
           THEN /\ availability' =
                       SetDoc(availability, date,
                              [date |-> date, slots |-> generateDefaultSlots])
                /\ Goto(p, "increment")
           ELSE /\ updateAvailability_return(p, Failure(ErrUnavailable))
                /\ UNCHANGED availability
        /\ UNCHANGED <<bookings, currentUser>>

\* updateAvailability refusing a change that takes booked below 0 or above total.
updateAvailability_updateChecked(p) ==
    \E ok \in BOOLEAN :
        /\ Request(p, "increment", ok)
        /\ LET date == procs[p].loc.date
               after == BookedIn(availability, date, procs[p].loc.time)
                            + procs[p].loc.change
           IN
           IF ~ok
           THEN /\ updateAvailability_return(p, Failure(ErrUnavailable))
                /\ UNCHANGED availability
           ELSE IF date \notin DOMAIN availability
           THEN /\ updateAvailability_return(p, Failure(ErrNotFound))
                /\ UNCHANGED availability
           ELSE IF after < 0 \/ after > 100
           THEN /\ procs' = [procs EXCEPT
                                ![p].pc = "done",
                                ![p].requests = Answered(p, TRUE),
                                ![p].ret = IF procs[p].op = "createBooking"
                                           THEN Success([id |-> procs[p].loc.id])
                                           ELSE Failure("Slot is full")]
                /\ UNCHANGED <<availability, expected>>
           ELSE /\ availability' =
                       [availability EXCEPT ![date].slots =
                           IncrementBooked(@, procs[p].loc.time, procs[p].loc.change)]
                /\ updateAvailability_return(p, Success(<<>>))
        /\ UNCHANGED <<bookings, currentUser>>

\* availabilityRef.update({ 'slots.<time>.booked': increment(change) }), lines
\* 142-146; update() fails when there is no such document.
updateAvailability_update(p) ==
    \E ok \in BOOLEAN :
        /\ Request(p, "increment", ok)
        /\ LET date == procs[p].loc.date IN
           IF ~ok
           THEN /\ updateAvailability_return(p, Failure(ErrUnavailable))
                /\ UNCHANGED availability
           ELSE IF date \notin DOMAIN availability
           THEN /\ updateAvailability_return(p, Failure(ErrNotFound))
                /\ UNCHANGED availability
           ELSE /\ availability' =
                       [availability EXCEPT ![date].slots =
                           IncrementBooked(@, procs[p].loc.time, procs[p].loc.change)]
                /\ updateAvailability_return(p, Success(<<>>))
        /\ UNCHANGED <<bookings, currentUser>>

\* ------------------------------------------------------ authentication
\* adminLogin(email, password); accepted says whether the identity provider
\* accepts the password for the email.
adminLogin(p, email, accepted) ==
    /\ Invoke(p, "adminLogin", "signIn", [email |-> email, accepted |-> accepted], <<>>)
    /\ UNCHANGED <<store, now, elapsed, issued>>

\* auth.signInWithEmailAndPassword(email, password), line 169: a sign-in makes the
\* user the current user, whoever was signed in before.
adminLogin_signIn(p) ==
    \E ok \in BOOLEAN :
        /\ Request(p, "signIn", ok)
        /\ IF ~ok
           THEN /\ Return(p, Failure(ErrUnavailable), FALSE, ErrUnavailable)
                /\ UNCHANGED currentUser
           ELSE IF ~procs[p].args.accepted
           THEN /\ Return(p, Failure(ErrWrongPassword), FALSE, ErrWrongPassword)
                /\ UNCHANGED currentUser
           ELSE /\ currentUser' = procs[p].args.email
                /\ Goto(p, "admins")
        /\ UNCHANGED <<bookings, availability>>

\* adminLogin without its signOut(): the failure is returned with the session
\* left as the sign-in made it.
adminLogin_getNoSignOut(p) ==
    \E ok \in BOOLEAN :
        /\ Request(p, "admins", ok)
        /\ procs[p].op = "adminLogin"
        /\ IF ~ok THEN Return(p, Failure(ErrUnavailable), FALSE, ErrUnavailable)
           ELSE IF procs[p].args.email \in Admins
           THEN Return(p, Success([user |-> procs[p].args.email]), FALSE, NoError)
           ELSE Return(p, Failure("Not an admin user"), FALSE, NoError)
        /\ UNCHANGED store

\* collection('admins').where('email', '==', email).get(), lines 172-178.
adminLogin_get(p) ==
    \E ok \in BOOLEAN :
        /\ Request(p, "admins", ok)
        /\ procs[p].op = "adminLogin"
        /\ IF ~ok THEN Return(p, Failure(ErrUnavailable), FALSE, ErrUnavailable)
           ELSE IF procs[p].args.email \in Admins
           THEN Return(p, Success([user |-> procs[p].args.email]), FALSE, NoError)
           ELSE Goto(p, "signOut")
        /\ UNCHANGED store

adminLogout(p) ==
    /\ Invoke(p, "adminLogout", "signOut", <<>>, <<>>)
    /\ UNCHANGED <<store, now, elapsed, issued>>

\* auth.signOut(): line 179 in adminLogin, line 189 in adminLogout.
signOut(p) ==
    \E ok \in BOOLEAN :
        /\ Request(p, "signOut", ok)
        /\ IF ~ok
           THEN /\ Return(p, Failure(ErrUnavailable), FALSE, ErrUnavailable)
                /\ UNCHANGED currentUser
           ELSE /\ currentUser' = NoUser
                /\ IF procs[p].op = "adminLogin"
                   THEN Return(p, Failure("Not an admin user"), FALSE, NoError)
                   ELSE Return(p, Success(<<>>), FALSE, NoError)
        /\ UNCHANGED <<bookings, availability>>

\* isAdmin(), lines 198-199: user is auth.currentUser as the call finds it; with
\* no current user the call returns false at once.
isAdmin(p) ==
    /\ IF currentUser = NoUser
       THEN InvokeReturning(p, "isAdmin", "done", <<>>, [user |-> currentUser], FALSE)
       ELSE Invoke(p, "isAdmin", "admins", <<>>, [user |-> currentUser])
    /\ UNCHANGED <<store, now, elapsed, issued>>

\* isAdmin answering true for whoever is signed in.
isAdmin_getAnySession(p) ==
    \E ok \in BOOLEAN :
        /\ Request(p, "admins", ok)
        /\ procs[p].op = "isAdmin"
        /\ IF ok THEN Return(p, TRUE, FALSE, NoError)
           ELSE Return(p, ErrUnavailable, TRUE, ErrUnavailable)
        /\ UNCHANGED store

\* collection('admins').where('email', '==', user.email).get(), lines 201-205,
\* outside any try: a failed request is thrown to the caller.
isAdmin_get(p) ==
    \E ok \in BOOLEAN :
        /\ Request(p, "admins", ok)
        /\ procs[p].op = "isAdmin"
        /\ IF ok THEN Return(p, procs[p].loc.user \in Admins, FALSE, NoError)
           ELSE Return(p, ErrUnavailable, TRUE, ErrUnavailable)
        /\ UNCHANGED store

\* ------------------------------------------------------- specification
BookingData ==
    {[date |-> "d1", time |-> "09:00", kids |-> 2, adults |-> 1],
     [date |-> "d1", time |-> "09:00", kids |-> 0, adults |-> 1, status |-> "confirmed"],
     [date |-> "d1", time |-> "20:00", kids |-> 1, adults |-> 1],
     [date |-> "d2", time |-> "09:00", kids |-> 0, adults |-> 2, status |-> "cancelled"]}

Next ==
    \E p \in Procs :
        \/ \E bookingData \in BookingData : createBooking(p, bookingData)
        \/ createBooking_add(p)
        \/ getAllBookings(p)
        \/ getAllBookings_get(p)
        \/ \E date \in Dates : getBookingsByDate(p, date)
        \/ getBookingsByDate_get(p)
        \/ \E id \in BookingIds, updates \in Updates : updateBooking(p, id, updates)
        \/ updateBooking_update(p)
        \/ \E id \in BookingIds : deleteBooking(p, id)
        \/ deleteBooking_delete(p)
        \/ getActivities(p)
        \/ getActivities_get(p)
        \/ \E date \in Dates : getAvailability(p, date)
        \/ getAvailability_get(p)
        \/ getAvailability_set(p)
        \/ \E date \in Dates, time \in Times, change \in Deltas :
                updateAvailability(p, date, time, change)
        \/ updateAvailability_get(p)
        \/ updateAvailability_set(p)
        \/ updateAvailability_update(p)
        \/ \E email \in Emails, accepted \in BOOLEAN : adminLogin(p, email, accepted)
        \/ adminLogin_signIn(p)
        \/ adminLogin_get(p)
        \/ adminLogout(p)
        \/ signOut(p)
        \/ isAdmin(p)
        \/ isAdmin_get(p)

Spec == Init /\ [][Next]_vars

\* The availability methods alone.
NextAvailability ==
    \E p \in Procs :
        \/ \E date \in Dates : getAvailability(p, date)
        \/ getAvailability_get(p)
        \/ getAvailability_set(p)
        \/ \E date \in Dates, time \in Times, change \in Deltas :
                updateAvailability(p, date, time, change)
        \/ updateAvailability_get(p)
        \/ updateAvailability_set(p)
        \/ updateAvailability_update(p)

SpecAvailability == Init /\ [][NextAvailability]_vars

\* getAvailability alone, from concurrent callers.
NextGetAvailability ==
    \E p \in Procs :
        \/ \E date \in Dates : getAvailability(p, date)
        \/ getAvailability_get(p)
        \/ getAvailability_set(p)

SpecGetAvailability == Init /\ [][NextGetAvailability]_vars

\* updateAvailability(date, time, +1) alone, from concurrent callers.
NextIncrement ==
    \E p \in Procs :
        \/ \E date \in Dates, time \in Times : updateAvailability(p, date, time, 1)
        \/ updateAvailability_get(p)
        \/ updateAvailability_set(p)
        \/ updateAvailability_update(p)

SpecIncrement == Init /\ [][NextIncrement]_vars

\* createBooking alone, from concurrent callers.
NextCreate ==
    \E p \in Procs :
        \/ \E bookingData \in BookingData : createBooking(p, bookingData)
        \/ createBooking_add(p)
        \/ updateAvailability_get(p)
        \/ updateAvailability_set(p)
        \/ updateAvailability_update(p)

SpecCreate == Init /\ [][NextCreate]_vars

\* createBooking and updateAvailability(date, time, -2), from concurrent callers.
NextReserve ==
    \E p \in Procs :
        \/ \E bookingData \in BookingData : createBooking(p, bookingData)
        \/ createBooking_add(p)
        \/ \E date \in Dates : updateAvailability(p, date, "09:00", -2)
        \/ updateAvailability_get(p)
        \/ updateAvailability_set(p)
        \/ updateAvailability_update(p)

SpecReserve == Init /\ [][NextReserve]_vars

\* A party and changes large enough to leave the range 0..total of a slot.
LargeParty == [date |-> "d1", time |-> "09:00", kids |-> 60, adults |-> 38]
LargeDeltas == {98, -3}

\* createBooking and updateAvailability with these, called one after the other.
NextCapacity ==
    \E p \in {1} :
        \/ createBooking(p, LargeParty)
        \/ createBooking_add(p)
        \/ \E date \in Dates, time \in Times, change \in LargeDeltas :
                updateAvailability(p, date, time, change)
        \/ updateAvailability_get(p)
        \/ updateAvailability_set(p)
        \/ updateAvailability_update(p)

SpecCapacity == Init /\ [][NextCapacity]_vars

\* The booking methods, called one after the other by one caller.
NextBookings ==
    \E p \in {1} :
        \/ \E bookingData \in BookingData : createBooking(p, bookingData)
        \/ createBooking_add(p)
        \/ updateAvailability_get(p)
        \/ updateAvailability_set(p)
        \/ updateAvailability_update(p)
        \/ getAllBookings(p)
        \/ getAllBookings_get(p)
        \/ \E date \in Dates : getBookingsByDate(p, date)
        \/ getBookingsByDate_get(p)
        \/ \E id \in BookingIds, updates \in Updates : updateBooking(p, id, updates)
        \/ updateBooking_update(p)
        \/ \E id \in BookingIds : deleteBooking(p, id)
        \/ deleteBooking_delete(p)

SpecBookings == Init /\ [][NextBookings]_vars

\* The authentication methods.
NextAuthentication ==
    \E p \in Procs :
        \/ \E email \in Emails, accepted \in BOOLEAN : adminLogin(p, email, accepted)
        \/ adminLogin_signIn(p)
        \/ adminLogin_get(p)
        \/ adminLogout(p)
        \/ signOut(p)
        \/ isAdmin(p)
        \/ isAdmin_get(p)

SpecAuthentication == Init /\ [][NextAuthentication]_vars

\* ---------------------------------------------------------------- claims
Done(p, op) == procs[p].pc = "done" /\ procs[p].op = op

\* A call that ran with no other call in flight and none of whose requests failed.
Undisturbed(call) == call.alone /\ call.error = NoError

RECURSIVE SumOver(_, _)
SumOver(S, f) ==
    IF S = {} THEN 0
    ELSE LET x == CHOOSE y \in S : TRUE IN f[x] + SumOver(S \ {x}, f)

\* The people booked into a slot by the booking records.
PeopleBooked(date, time) ==
    SumOver({id \in DOMAIN bookings :
                bookings[id].date = date /\ bookings[id].time = time},
            [id \in DOMAIN bookings |-> bookings[id].kids + bookings[id].adults])

\* C1: when updateAvailability(d, t, +1) calls run concurrently and every request
\* succeeds, then once all have returned slots[t].booked of d is its value before
\* the calls plus the number of calls.  (Under SpecIncrement every call is such a
\* call, so expected is the value at the start plus the number of calls.)
C1_EveryIncrementCounted ==
    (Quiescent /\ failures = 0) =>
        \A d \in Dates, t \in Times : BookedIn(availability, d, t) = expected[<<d, t>>]

\* C2: in every quiescent state reached by createBooking calls alone, with no
\* failed request, each slot's booked count is the sum of kids + adults over the
\* booking records of that date and time.
C2_BookedInSyncWithBookings ==
    (Quiescent /\ failures = 0) =>
        \A d \in Dates, t \in Times : BookedIn(availability, d, t) = PeopleBooked(d, t)

\* The slot map of a date before a call: the stored one, or, for a date with no
\* document, the default map the call starts the document with.
SlotsBefore(call, date) ==
    IF date \in DOMAIN call.pre.availability
    THEN call.pre.availability[date].slots
    ELSE [t \in {"09:00", "10:00", "11:00", "12:00", "13:00", "14:00", "15:00",
                 "16:00", "17:00", "18:00"} |-> [booked |-> 0, total |-> 100]]

\* Apart from slots[time].booked, the slot map of date is what it was before call.
OnlyBookedChanged(slots, call, date, time) ==
    LET before == SlotsBefore(call, date) IN
    /\ DOMAIN slots = DOMAIN before \cup {time}
    /\ \A t \in DOMAIN before \ {time} : slots[t] = before[t]
    /\ "booked" \in DOMAIN slots[time]
    /\ time \in DOMAIN before =>
            /\ DOMAIN slots[time] = DOMAIN before[time] \cup {"booked"}
            /\ \A f \in DOMAIN before[time] \ {"booked"} : slots[time][f] = before[time][f]

\* The availability documents of the dates other than date are what they were.
OtherDatesUnchanged(call, date) ==
    /\ DOMAIN availability \ {date} = DOMAIN call.pre.availability \ {date}
    /\ \A d \in DOMAIN availability \ {date} : availability[d] = call.pre.availability[d]

\* C3: a createBooking(data) call that runs with no other call in flight and no
\* failed request inserts exactly one booking record and raises
\* slots[data.time].booked of data.date by data.kids + data.adults; every other
\* slot, every total and every other date are as before.
C3_CreateBookingEffect ==
    \A p \in Procs :
        (Done(p, "createBooking") /\ Undisturbed(procs[p])) =>
            LET call == procs[p]
                data == call.args
                id == call.ret.id
            IN  /\ call.ret.success
                /\ id \notin DOMAIN call.pre.bookings
                /\ DOMAIN bookings = DOMAIN call.pre.bookings \cup {id}
                /\ \A i \in DOMAIN call.pre.bookings : bookings[i] = call.pre.bookings[i]
                /\ data.date \in DOMAIN availability
                /\ BookedIn(availability, data.date, data.time)
                        = BookedIn(call.pre.availability, data.date, data.time)
                          + data.kids + data.adults
                /\ OnlyBookedChanged(availability[data.date].slots, call,
                                     data.date, data.time)
                /\ OtherDatesUnchanged(call, data.date)

\* C3's case: a booking into a slot that already had people booked, while another
\* date has a document too.
C3_Witness ==
    \E p \in Procs :
        /\ Done(p, "createBooking") /\ Undisturbed(procs[p])
        /\ BookedIn(procs[p].pre.availability, procs[p].args.date, procs[p].args.time) > 0
        /\ DOMAIN procs[p].pre.availability \ {procs[p].args.date} # {}

\* The ids of the records of a list a query returned.
IdsOf(list) == {list[i].id : i \in 1..Len(list)}

\* C4: getBookingsByDate(d) returns exactly the stored bookings whose date is d,
\* and right after a createBooking(data) that returned success with id it
\* returns, for d = data.date, the record id with status "pending", whatever
\* status data carried.
C4_BookingsByDate ==
    \A p \in Procs :
        (Done(p, "getBookingsByDate") /\ Undisturbed(procs[p])) =>
            LET call == procs[p]
                list == call.ret.bookings
            IN  /\ call.ret.success
                /\ IdsOf(list) = {id \in DOMAIN bookings : bookings[id].date = call.args.date}
                /\ Len(list) = Cardinality(IdsOf(list))
                /\ \A i \in 1..Len(list) :
                        /\ list[i].date = call.args.date
                        /\ \A f \in DOMAIN bookings[list[i].id] :
                                list[i][f] = bookings[list[i].id][f]
                /\ (/\ call.prev # <<>>
                    /\ call.prev.op = "createBooking"
                    /\ call.prev.ret.success
                    /\ call.prev.args.date = call.args.date)
                   => \E i \in 1..Len(list) :
                        list[i].id = call.prev.ret.id /\ list[i].status = "pending"

\* C4's case: the caller supplied another status, and the store holds a booking
\* of another date.
C4_Witness ==
    \E p \in Procs :
        /\ Done(p, "getBookingsByDate") /\ Undisturbed(procs[p])
        /\ procs[p].prev # <<>>
        /\ procs[p].prev.op = "createBooking"
        /\ procs[p].prev.ret.success
        /\ procs[p].prev.args.date = procs[p].args.date
        /\ "status" \in DOMAIN procs[p].prev.args
        /\ \E id \in DOMAIN bookings : bookings[id].date # procs[p].args.date

NotAnAdmin == [success |-> FALSE, error |-> "Not an admin user"]

\* An adminLogin whose credentials the identity provider accepted, for an email
\* that is not in the allow-list.
RejectedLogin(call) ==
    /\ call.op = "adminLogin"
    /\ call.args.accepted
    /\ call.args.email \notin Admins
    /\ Undisturbed(call)

\* C5: adminLogin with accepted credentials and an email absent from the
\* allow-list returns the failure "Not an admin user" and leaves no session,
\* whether or not there was one before; an isAdmin() that follows returns false.
C5_RejectedLoginLeavesNoSession ==
    \A p \in Procs :
        /\ (procs[p].pc = "done" /\ RejectedLogin(procs[p])) =>
                /\ procs[p].ret = NotAnAdmin
                /\ ~procs[p].threw
                /\ currentUser = NoUser
        /\ (/\ Done(p, "isAdmin")
            /\ Undisturbed(procs[p])
            /\ procs[p].prev # <<>>
            /\ RejectedLogin(procs[p].prev))
           => (procs[p].ret = FALSE /\ ~procs[p].threw)

\* C5's case: the login replaced a session that was active before it.
C5_Witness ==
    \E p \in Procs :
        /\ procs[p].pc = "done"
        /\ RejectedLogin(procs[p])
        /\ procs[p].pre.currentUser # NoUser

DefaultSlotKeys ==
    {"09:00", "10:00", "11:00", "12:00", "13:00", "14:00", "15:00", "16:00", "17:00",
     "18:00"}

\* C6: for a date with no document, getAvailability (alone) returns success with
\* exactly the slots 09:00, ..., 18:00, each booked 0 of total 100, which is what
\* generateDefaultSlots() gives, and the store then holds that map for the date.
C6_UnseenDateGetsDefaults ==
    \A p \in Procs :
        (/\ Done(p, "getAvailability")
         /\ Undisturbed(procs[p])
         /\ procs[p].args.date \notin DOMAIN procs[p].pre.availability)
        => LET date == procs[p].args.date
               ret == procs[p].ret
           IN  /\ ret.success
               /\ DOMAIN ret = {"success", "slots"}
               /\ DOMAIN ret.slots = DefaultSlotKeys
               /\ Cardinality(DOMAIN ret.slots) = 10
               /\ \A t \in DOMAIN ret.slots : ret.slots[t] = [booked |-> 0, total |-> 100]
               /\ ret.slots = generateDefaultSlots
               /\ date \in DOMAIN availability
               /\ availability[date].slots = ret.slots
               /\ availability[date].date = date

\* C6's case: a getAvailability that found no document, while the other date had
\* one.
C6_Witness ==
    \E p \in Procs :
        /\ Done(p, "getAvailability")
        /\ Undisturbed(procs[p])
        /\ procs[p].args.date \notin DOMAIN procs[p].pre.availability
        /\ DOMAIN procs[p].pre.availability # {}

\* A getAvailability(d) right after an updateAvailability(d, t, delta) that
\* returned success, t a default slot key, nothing else in between.
ReadAfterUpdate(call) ==
    /\ call.op = "getAvailability"
    /\ Undisturbed(call)
    /\ call.prev # <<>>
    /\ call.prev.op = "updateAvailability"
    /\ Undisturbed(call.prev)
    /\ call.prev.ret.success
    /\ call.prev.args.date = call.args.date
    /\ call.prev.args.time \in DefaultSlotKeys

\* C7: updateAvailability(d, t, delta) that returned success, followed by
\* getAvailability(d): the slots returned have slots[t].booked = the value before
\* the update plus delta (delta for an unseen date), every other slot's booked and
\* every slot's total as before the update.
C7_UpdateThenGet ==
    \A p \in Procs :
        (procs[p].pc = "done" /\ ReadAfterUpdate(procs[p])) =>
            LET upd == procs[p].prev
                date == upd.args.date
                time == upd.args.time
                before == SlotsBefore(upd, date)
                slots == procs[p].ret.slots
            IN  /\ procs[p].ret.success
                /\ slots[time].booked = Booked(before, time) + upd.args.change
                /\ date \notin DOMAIN upd.pre.availability =>
                        slots[time].booked = upd.args.change
                /\ OnlyBookedChanged(slots, upd, date, time)

\* C7's case: the update hit a slot that already had people booked.
C7_Witness ==
    \E p \in Procs :
        /\ procs[p].pc = "done"
        /\ ReadAfterUpdate(procs[p])
        /\ BookedIn(procs[p].prev.pre.availability, procs[p].args.date,
                    procs[p].prev.args.time) > 0

\* C7's other case: the update created the date's document.
C7_WitnessUnseen ==
    \E p \in Procs :
        /\ procs[p].pc = "done"
        /\ ReadAfterUpdate(procs[p])
        /\ procs[p].args.date \notin DOMAIN procs[p].prev.pre.availability

\* C8: updateBooking(id, updates) on an existing booking changes only the fields
\* named in updates and updatedAt; the booking's other fields, the other bookings
\* and every availability document are unchanged, also when updates changes the
\* date or the party.
C8_UpdateBookingFrame ==
    \A p \in Procs :
        (/\ Done(p, "updateBooking")
         /\ Undisturbed(procs[p])
         /\ procs[p].args.bookingId \in DOMAIN procs[p].pre.bookings)
        => LET call == procs[p]
               id == call.args.bookingId
               old == call.pre.bookings[id]
           IN  /\ call.ret = [success |-> TRUE]
               /\ DOMAIN bookings = DOMAIN call.pre.bookings
               /\ DOMAIN bookings[id] = DOMAIN old \cup DOMAIN call.args.updates
               /\ \A f \in DOMAIN old \ (DOMAIN call.args.updates \cup {"updatedAt"}) :
                        bookings[id][f] = old[f]
               /\ \A f \in DOMAIN call.args.updates : bookings[id][f] = call.args.updates[f]
               /\ \A i \in DOMAIN bookings \ {id} : bookings[i] = call.pre.bookings[i]
               /\ availability = call.pre.availability

\* C8's case: the update moved the booking to another date and changed its party,
\* and there is another booking.
C8_Witness ==
    \E p \in Procs :
        /\ Done(p, "updateBooking")
        /\ Undisturbed(procs[p])
        /\ procs[p].args.bookingId \in DOMAIN procs[p].pre.bookings
        /\ "date" \in DOMAIN procs[p].args.updates
        /\ procs[p].args.updates.date # procs[p].pre.bookings[procs[p].args.bookingId].date
        /\ Cardinality(DOMAIN bookings) > 1

\* C9: after deleteBooking(id) returned success the record is gone, the other
\* bookings are as before and no availability document changed (the slot's booked
\* count is what it was); a getAllBookings() that follows returns the other
\* bookings and not id.
C9_DeleteBookingFrame ==
    \A p \in Procs :
        /\ (Done(p, "deleteBooking") /\ Undisturbed(procs[p])) =>
                LET call == procs[p]
                    id == call.args.bookingId
                IN  /\ call.ret = [success |-> TRUE]
                    /\ DOMAIN bookings = DOMAIN call.pre.bookings \ {id}
                    /\ \A i \in DOMAIN bookings : bookings[i] = call.pre.bookings[i]
                    /\ availability = call.pre.availability
        /\ (/\ Done(p, "getAllBookings")
            /\ Undisturbed(procs[p])
            /\ procs[p].prev # <<>>
            /\ procs[p].prev.op = "deleteBooking"
            /\ Undisturbed(procs[p].prev))
           => LET del == procs[p].prev
                  list == procs[p].ret.bookings
              IN  /\ procs[p].ret.success
                  /\ IdsOf(list) = DOMAIN del.pre.bookings \ {del.args.bookingId}
                  /\ \A i \in 1..Len(list) :
                        \A f \in DOMAIN del.pre.bookings[list[i].id] :
                            list[i][f] = del.pre.bookings[list[i].id][f]
                  /\ \A d \in Dates, t \in Times :
                        BookedIn(availability, d, t) = BookedIn(del.pre.availability, d, t)

\* C9's case: the deleted booking existed, its slot had its people booked, and
\* another booking was there.
C9_Witness ==
    \E p \in Procs :
        /\ Done(p, "getAllBookings")
        /\ Undisturbed(procs[p])
        /\ procs[p].prev # <<>>
        /\ procs[p].prev.op = "deleteBooking"
        /\ Undisturbed(procs[p].prev)
        /\ LET del == procs[p].prev
               id == del.args.bookingId
           IN  /\ id \in DOMAIN del.pre.bookings
               /\ DOMAIN del.pre.bookings # {id}
               /\ BookedIn(availability, del.pre.bookings[id].date,
                           del.pre.bookings[id].time) > 0

\* The methods that wrap their requests in try/catch.
Enveloped ==
    {"createBooking", "getAllBookings", "getBookingsByDate", "updateBooking",
     "deleteBooking", "getActivities", "getAvailability", "updateAvailability",
     "adminLogin", "adminLogout"}

\* C10: each of these methods, when a request it issued failed, returns
\* { success: false, error: <the failure's message> } and never throws; when none
\* failed it returns success = true (or adminLogin's "Not an admin user").
C10_FailureEnvelope ==
    \A p \in Procs :
        (procs[p].pc = "done" /\ procs[p].op \in Enveloped) =>
            /\ ~procs[p].threw
            /\ procs[p].error # NoError =>
                    procs[p].ret = [success |-> FALSE, error |-> procs[p].error]
            /\ procs[p].error = NoError =>
                    \/ procs[p].ret.success
                    \/ procs[p].op = "adminLogin" /\ procs[p].ret = NotAnAdmin

\* The requests of a call that were answered with success.
Applied(call) ==
    {call.requests[i].request : i \in {j \in 1..Len(call.requests) : call.requests[j].ok}}

\* C11: createBooking returns { success: true, id } only when both the insert and
\* the increment of the slot were applied; when the insert was applied and the
\* availability update then failed (on its get, its set or its increment), it
\* returns the failure envelope with the error's message.
C11_SuccessMeansBothApplied ==
    \A p \in Procs :
        Done(p, "createBooking") =>
            /\ procs[p].ret.success => {"add", "increment"} \subseteq Applied(procs[p])
            /\ ("add" \in Applied(procs[p]) /\ procs[p].error # NoError) =>
                    procs[p].ret = Failure(procs[p].error)

\* C12: isAdmin() returns true exactly when, as the call is made, a session is
\* active and its email is in the allow-list (a lookup that fails is thrown, there
\* is then no value returned); with no session it returns false without any
\* request to the store.
C12_IsAdminIffAllowListedSession ==
    \A p \in Procs :
        Done(p, "isAdmin") =>
            LET call == procs[p]
                user == call.loc.user
            IN  /\ call.alone => user = call.pre.currentUser
                /\ ~call.threw => call.ret = (user # NoUser /\ user \in Admins)
                /\ call.threw => call.error # NoError
                /\ user = NoUser =>
                        (call.ret = FALSE /\ ~call.threw /\ call.requests = <<>>)
                /\ user # NoUser =>
                        (Len(call.requests) = 1 /\ call.requests[1].request = "admins")

\* C12's case: isAdmin() called with the session of an allow-listed email.
C12_Witness ==
    \E p \in Procs :
        /\ Done(p, "isAdmin")
        /\ procs[p].alone
        /\ procs[p].pre.currentUser \in Admins
        /\ procs[p].ret = TRUE

\* C13: getAllBookings() returns every stored booking, each once, with its fields,
\* by createdAt descending; of two bookings, the one whose createBooking call
\* was made later (the calls being made one after the other) comes first.
C13_AllBookingsNewestFirst ==
    \A p \in Procs :
        (Done(p, "getAllBookings") /\ Undisturbed(procs[p])) =>
            LET call == procs[p]
                list == call.ret.bookings
                nth(id) == CHOOSE n \in 1..Len(issued) : issued[n] = id
            IN  /\ call.ret.success
                /\ IdsOf(list) = DOMAIN bookings
                /\ Len(list) = Cardinality(DOMAIN bookings)
                /\ \A i \in 1..Len(list) :
                        \A f \in DOMAIN bookings[list[i].id] :
                            list[i][f] = bookings[list[i].id][f]
                /\ \A i, j \in 1..Len(list) :
                        i < j => list[i].createdAt >= list[j].createdAt
                /\ \A i, j \in 1..Len(list) :
                        i < j => nth(list[i].id) > nth(list[j].id)

\* C13's case: three bookings, the document ids of two of them in the opposite
\* order of their creation.
C13_Witness ==
    \E p \in Procs :
        /\ Done(p, "getAllBookings") /\ Undisturbed(procs[p])
        /\ Len(procs[p].ret.bookings) = 3
        /\ \E m, n \in 1..Len(issued) : m < n /\ issued[m] > issued[n]

\* Whether the requests of a call were, in this order, the ones named by names.
Requested(call, names) ==
    /\ Len(call.requests) = Len(names)
    /\ \A i \in 1..Len(names) : call.requests[i].request = names[i]

\* C14: when getAvailability(d) calls for a date d with no document run
\* concurrently and nothing else touches d, then however their requests interleave
\* each call returns the default slot map, and once they have returned the
\* document of d holds exactly the default slot map.  (Under SpecGetAvailability
\* nothing but getAvailability runs and bookings never changes: bookings = <<>>
\* says the behaviour began on the empty store, where no date has a document.)
C14_ConcurrentCreateIsBenign ==
    bookings = <<>> =>
        \A p \in Procs :
            (Done(p, "getAvailability") /\ procs[p].error = NoError) =>
                LET d == procs[p].args.date IN
                /\ procs[p].ret = [success |-> TRUE, slots |-> generateDefaultSlots]
                /\ d \in DOMAIN availability
                /\ availability[d] = [date |-> d, slots |-> generateDefaultSlots]
                /\ \A t \in DOMAIN availability[d].slots :
                        availability[d].slots[t] = [booked |-> 0, total |-> 100]
                /\ DOMAIN availability[d].slots = DefaultSlotKeys

\* C14's case: two overlapping calls for the same date that both found no
\* document and both wrote it.
C14_Witness ==
    /\ bookings = <<>>
    /\ \A p \in Procs :
        /\ Done(p, "getAvailability")
        /\ procs[p].error = NoError
        /\ ~procs[p].alone
        /\ procs[p].args.date = "d1"
        /\ Requested(procs[p], <<"get", "set">>)

\* C15: getAvailability never changes a booked count: no step of a
\* getAvailability(d) call, however it is interleaved with updateAvailability and
\* createBooking calls on d, changes slots[t].booked of any date and time, so an
\* increment a completed updateAvailability applied is still there when the
\* getAvailability call returns.
C15_GetAvailabilityKeepsBooked ==
    [][\A p \in Procs :
        (procs[p].op = "getAvailability" /\ procs'[p] # procs[p]) =>
            \A d \in Dates, t \in Times :
                BookedIn(availability', d, t) = BookedIn(availability, d, t)]_vars

\* C16: starting with no session, whenever no adminLogin call is in flight an
\* active session is the session of an allow-listed email; this also when the
\* allow-list lookup or the sign-out request of an adminLogin fails, and when
\* adminLogin calls overlap.
C16_SessionsOnlyForAllowListed ==
    (\A p \in Procs : ~(InFlight(p) /\ procs[p].op = "adminLogin")) =>
        (currentUser # NoUser => currentUser \in Admins)

\* The place of a request in the one order the two methods issue them in.
Rank(request) ==
    CASE request = "add" -> 1
      [] request = "get" -> 2
      [] request = "set" -> 3
      [] request = "increment" -> 4

\* The request of a call that failed, "none" when none did.
FailedRequest(call) ==
    IF call.requests # <<>> /\ ~call.requests[Len(call.requests)].ok
    THEN call.requests[Len(call.requests)].request
    ELSE "none"

\* C17: createBooking and updateAvailability issue their requests once each, in
\* the order add, get, set (for a missing document), increment, and stop at the
\* first that fails: the insert comes before any availability request, and when
\* it fails no availability request is issued and no availability document
\* changes; the increment comes only after a get (and a set, when there was one)
\* that succeeded, and when the get or the set fails no increment is applied; no
\* failed request is issued again.
C17_SingleAttemptInOrder ==
    \A p \in Procs :
        procs[p].op \in {"createBooking", "updateAvailability"} =>
            LET call == procs[p]
                r == call.requests
            IN  /\ \A i, j \in 1..Len(r) : i < j => Rank(r[i].request) < Rank(r[j].request)
                /\ \A i \in 1..Len(r) : ~r[i].ok => (i = Len(r) /\ call.pc = "done")
                /\ InFlight(p) => \A i \in 1..Len(r) : Rank(r[i].request) < Rank(call.pc)
                /\ call.op = "createBooking" => (r # <<>> => r[1].request = "add")
                /\ call.op = "updateAvailability" => (r # <<>> => r[1].request = "get")
                /\ (r # <<>> /\ r[Len(r)].request = "increment") => "get" \in Applied(call)
                /\ (call.pc = "done" /\ call.error = NoError) =>
                        r[Len(r)].request = "increment"
                /\ FailedRequest(call) = "add" =>
                        /\ Requested(call, <<"add">>)
                        /\ call.alone =>
                            (availability = call.pre.availability
                             /\ bookings = call.pre.bookings)
                /\ FailedRequest(call) \in {"get", "set"} =>
                        /\ "increment" \notin {r[i].request : i \in 1..Len(r)}
                        /\ call.alone => availability = call.pre.availability

\* C17's case: a createBooking whose insert succeeded and whose set() for a
\* missing availability document then failed.
C17_Witness ==
    \E p \in Procs :
        /\ Done(p, "createBooking")
        /\ procs[p].alone
        /\ FailedRequest(procs[p]) = "set"
        /\ Requested(procs[p], <<"add", "get", "set">>)

\* The date, time and change of the increment a call makes.
Reserved(call) ==
    IF call.op = "createBooking"
    THEN [date |-> call.args.date, time |-> call.args.time,
          change |-> call.args.kids + call.args.adults]
    ELSE call.args

\* C18: nothing enforces 0 <= booked <= total: updateAvailability(d, t, delta) and
\* createBooking apply their increment and return success whatever booked and
\* total are, also when the result is above total or below 0.
C18_CapacityNotEnforced ==
    \A p \in Procs :
        (/\ procs[p].pc = "done"
         /\ procs[p].op \in {"createBooking", "updateAvailability"}
         /\ procs[p].alone
         /\ \A i \in 1..Len(procs[p].requests) : procs[p].requests[i].ok)
        => LET call == procs[p]
               res == Reserved(call)
               after == BookedIn(call.pre.availability, res.date, res.time) + res.change
           IN  /\ call.ret.success
               /\ res.date \in DOMAIN availability
               /\ BookedIn(availability, res.date, res.time) = after
               /\ (after < 0 \/ after > 100) =>
                        availability[res.date].slots[res.time].booked = after

\* C18's case: a createBooking returned success having taken a slot above its
\* total (the parties of its bookings sum to 101), while another slot is below 0
\* after a negative change.
C18_Witness ==
    \E p \in Procs :
        /\ Done(p, "createBooking")
        /\ Undisturbed(procs[p])
        /\ procs[p].ret.success
        /\ LET slot == availability[procs[p].args.date].slots[procs[p].args.time]
           IN  /\ slot.booked > slot.total
               /\ PeopleBooked(procs[p].args.date, procs[p].args.time) = slot.booked
        /\ \E d \in DOMAIN availability :
                \E t \in DOMAIN availability[d].slots : availability[d].slots[t].booked < 0

\* C19: every availability document has exactly the ten slot keys 09:00, ...,
\* 18:00, and every slot has a booked and a total field, total = 100: no
\* operation, updateAvailability or createBooking with a time key outside
\* 09:00..18:00 included, adds a slot key, leaves a slot without total or changes
\* total.
C19_SlotShape ==
    \A d \in DOMAIN availability :
        LET slots == availability[d].slots IN
        /\ DOMAIN slots = DefaultSlotKeys
        /\ \A t \in DOMAIN slots :
                /\ DOMAIN slots[t] = {"booked", "total"}
                /\ slots[t].total = 100

====
